---------------------------- MODULE Spec2Model ----------------------------
(***************************************************************************)
(* The object / array / monitor heap of yvm (src/runtime/JavaHeap.hpp).    *)
(*                                                                         *)
(* Three Container<Type> stores (std::map from a size_t offset to a        *)
(* record) sit behind the JavaHeap facade, each guarded by its own         *)
(* recursive_mutex.  Threads call the facade concurrently.  A facade call  *)
(* whose body is one map access is one atomic step taken while the         *)
(* store's mutex can be acquired; an allocation is two steps (the mutex is *)
(* taken and the last offset read; the record is inserted and the mutex    *)
(* released), which is where the mutex matters.  What a call returns is a  *)
(* function of the state it runs in, given by the operator named after     *)
(* the call.                                                               *)
(***************************************************************************)
EXTENDS Integers, Sequences, FiniteSets, TLC

(***************************************************************************)
(* Bounds of the model.                                                    *)
(***************************************************************************)
NThreads == 3
MaxHandle == 2
MaxVal == 1
MaxLen == 2
MaxDepth == 2
MaxFields == 2

Threads == 1..NThreads
Handles == 1..MaxHandle
\* JType* slot values; 0 stands for the default-initialised value.
Values == 0..MaxVal
ArrLens == 1..MaxLen
Stores == {"obj", "arr", "mon"}
NoThread == 0

VARIABLES
  classTable,        \* the loaded classes, root first: class i extends class i - 1
  objectContainer,   \* offset -> InternalObject (sequence of slots)
  arrayContainer,    \* offset -> InternalArray  ([first |-> length, second |-> slots])
  monitorContainer,  \* offset -> InternalMonitor (identity of the ObjectMonitor)
  mtx,               \* objMtx, arrMtx, monitorMtx: [owner, count]
  pc,                \* per thread: position inside an allocating facade call
  frame,             \* per thread: the arguments and locals of that call
  halted,            \* the process has crashed
  objJc,             \* offset -> jc of the JObject createObject returned last
  issued,            \* per store: offset -> allocations that returned it, not removed since
  written,           \* per store: offset -> slot values as the writes define them
  monitorFor,        \* object offset -> offset createMonitor returned on its behalf
  monitorsMade       \* number of ObjectMonitor objects constructed so far

vars == << classTable, objectContainer, arrayContainer, monitorContainer, mtx, pc, frame,
           halted, objJc, issued, written, monitorFor, monitorsMade >>


(***************************************************************************)
(* Container<Type>: std::map<size_t, Type> modelled as a function whose    *)
(* domain is the set of keys.                                              *)
(***************************************************************************)
EmptyMap == [k \in {} |-> 0]

\* The map with key k bound to v (used for the bookkeeping variables).
Bind(f, k, v) == [x \in DOMAIN f \cup {k} |-> IF x = k THEN v ELSE f[x]]

\* The map without key k.
Unbind(f, k) == [x \in DOMAIN f \ {k} |-> f[x]]

\* Container::has
has(data, offset) == offset \in DOMAIN data

\* Container::find on a key that is present (an absent key is undefined
\* behaviour, which the facade actions resolve).
find(data, offset) == data[offset]

\* Container::remove without the test for presence: erase(find(offset))
\* on an absent key takes the record before end() with it.
removeUnchecked(data, offset) ==
  IF offset \in DOMAIN data
    THEN [k \in DOMAIN data \ {offset} |-> data[k]]
    ELSE [k \in { j \in DOMAIN data : \E i \in DOMAIN data : i > j } |-> data[k]]

\* Container::remove that compares against --data.end(): the record with
\* the greatest key is never erased.
removeNotLast(data, offset) ==
  IF offset \in DOMAIN data /\ \E k \in DOMAIN data : k > offset
    THEN [k \in DOMAIN data \ {offset} |-> data[k]]
    ELSE data

\* Container::remove
remove(data, offset) ==
  IF offset \in DOMAIN data
    THEN [k \in DOMAIN data \ {offset} |-> data[k]]
    ELSE data

\* A place() that takes the number of records for the greatest key.
lastOffsetOfSize(data) == Cardinality(DOMAIN data)

\* (--data.end())->first, the greatest key; 0 for an empty map.
lastOffsetOf(data) ==
  IF DOMAIN data = {}
    THEN 0
    ELSE CHOOSE k \in DOMAIN data : \A j \in DOMAIN data : j <= k

\* place() that inserts at lastOffset itself.
placeOffsetNoIncrement(lastOffset) == lastOffset

\* The key place() inserts and returns.
placeOffset(lastOffset) == lastOffset + 1

\* std::map::insert: a key that is present keeps its record.
insert(data, key, value) ==
  IF key \in DOMAIN data
    THEN data
    ELSE [k \in DOMAIN data \cup {key} |-> IF k = key THEN value ELSE data[k]]

(***************************************************************************)
(* recursive_mutex and lock_guard.                                         *)
(***************************************************************************)
FreeMutex == [owner |-> NoThread, count |-> 0]

\* A mutex that never makes a thread wait.
AcquirableAlways(m, t) == TRUE

\* A mutex that lets a second thread in while it is held once.
AcquirableUncounted(m, t) == m.count <= 1

\* recursive_mutex::lock returns at once for thread t.
Acquirable(m, t) == m.owner = NoThread \/ m.owner = t

lock(m, t) == [owner |-> t, count |-> m.count + 1]

\* An unlock that frees the mutex whatever its count.
unlockAll(m) == FreeMutex

\* An unlock that counts down and leaves the owner in place.
unlockKeepsOwner(m) ==
  [m EXCEPT !.count = IF m.count > 0 THEN m.count - 1 ELSE 0]

unlock(m) ==
  IF m.count <= 1 THEN FreeMutex ELSE [m EXCEPT !.count = m.count - 1]

(***************************************************************************)
(* Results.  Dereferencing data.end(), indexing past the end of a record   *)
(* or dereferencing a null dynamic_cast is undefined behaviour: the call   *)
(* either crashes the process or goes on with an indeterminate value.  No  *)
(* path of the facade raises a typed error.                                *)
(***************************************************************************)
UBOutcomes == {"crash", "garbage"}

Ok(v) == [status |-> "ok", val |-> v]

Fail(e) == [status |-> e, val |-> 0]

\* The outcomes of undefined behaviour; v is a placeholder of the type the
\* call returns.
Undefined(v) == {[status |-> o, val |-> v] : o \in UBOutcomes}

NoFrame == [op |-> "none", lastOffset |-> 0]

\* A sequence of n default-initialised slots.
Defaults(n) == [k \in 1..n |-> 0]

(***************************************************************************)
(* Class metadata (JavaClass, an external collaborator).  The loaded       *)
(* classes form one ancestor chain: class 1 is the root and class c > 1    *)
(* extends class c - 1; classTable[c] is the ordered list of the fields    *)
(* class c declares.                                                       *)
(***************************************************************************)
NoClass == 0
Classes == 1 .. Len(classTable)
superClass(jc) == jc - 1
fields(jc) == classTable[jc]
fieldsCount(jc) == Len(classTable[jc])

Field(n, d) == [name |-> n, descriptor |-> d]
FieldNames == {"x", "y"}
Descriptors == {"I", "J"}

\* B extends A; A declares x:I, B declares y:I.
ClassesAB == << << Field("x", "I") >>, << Field("y", "I") >> >>

\* The field lists a class may declare: at most MaxFields fields of
\* distinct names.
FieldLists ==
  UNION { { f \in [1..n -> [name : FieldNames, descriptor : {"I"}]] :
              \A i, j \in 1..n : i # j => f[i].name # f[j].name }
          : n \in 0..MaxFields }

\* The ancestor chains of at most MaxDepth classes.
ClassTables == UNION { [1..n -> FieldLists] : n \in 1..MaxDepth }

(***************************************************************************)
(* Instance layout (createObject, getFieldByNameImpl).                     *)
(***************************************************************************)
RECURSIVE totalFields(_)
\* The number of slots of an instance of jc: the declared-field counts
\* summed over the ancestor chain.
totalFields(jc) ==
  IF jc = NoClass THEN 0 ELSE totalFields(superClass(jc)) + fieldsCount(jc)

\* The position in fs of the field called name; 0 when there is none.
IndexOfName(fs, name) ==
  IF \E i \in 1..Len(fs) : fs[i].name = name
    THEN CHOOSE i \in 1..Len(fs) :
           /\ fs[i].name = name
           /\ \A j \in 1..(i - 1) : fs[j].name # name
    ELSE 0

RECURSIVE resolveField(_, _, _, _, _)
\* The flat slot of the field (name, descriptor) declared by desireLookup,
\* searched from currentLookup up the ancestor chain: the fields of
\* desireLookup begin after those of all its ancestors.
resolveField(desireLookup, currentLookup, name, descriptor, offset) ==
  IF currentLookup = NoClass
    THEN Fail("FieldNotFound")
    ELSE IF currentLookup # desireLookup
      THEN resolveField(desireLookup, superClass(currentLookup), name,
                        descriptor, offset)
      ELSE LET i == IndexOfName(fields(currentLookup), name)
           IN IF i = 0
                THEN Fail("FieldNotFound")
                ELSE IF fields(currentLookup)[i].descriptor # descriptor
                  THEN Fail("DescriptorMismatch")
                  ELSE Ok(offset + totalFields(superClass(currentLookup)) + i - 1)

(***************************************************************************)
(* Initial state.                                                          *)
(***************************************************************************)
\* The state every specification starts from, the loaded classes apart.
InitHeap ==
  /\ objectContainer = EmptyMap
  /\ arrayContainer = EmptyMap
  /\ monitorContainer = EmptyMap
  /\ mtx = [d \in Stores |-> FreeMutex]
  /\ pc = [t \in Threads |-> "idle"]
  /\ frame = [t \in Threads |-> NoFrame]
  /\ halted = FALSE
  /\ objJc = EmptyMap
  /\ issued = [d \in Stores |-> EmptyMap]
  /\ written = [d \in Stores |-> EmptyMap]
  /\ monitorFor = EmptyMap
  /\ monitorsMade = 0

Init ==
  /\ classTable = ClassesAB
  /\ InitHeap

(***************************************************************************)
(* Steps shared by the facade calls.                                       *)
(***************************************************************************)
\* The process dies: its heap is gone and no thread runs again.
Crash ==
  /\ halted' = TRUE
  /\ objectContainer' = EmptyMap
  /\ arrayContainer' = EmptyMap
  /\ monitorContainer' = EmptyMap
  /\ mtx' = [d \in Stores |-> FreeMutex]
  /\ pc' = [t \in Threads |-> "idle"]
  /\ frame' = [t \in Threads |-> NoFrame]
  /\ objJc' = EmptyMap
  /\ issued' = [d \in Stores |-> EmptyMap]
  /\ written' = [d \in Stores |-> EmptyMap]
  /\ monitorFor' = EmptyMap
  /\ monitorsMade' = 0
  /\ UNCHANGED classTable

\* A thread that is not inside a facade call may start one on store d.
CanEnter(t, d) ==
  /\ ~halted
  /\ pc[t] = "idle"
  /\ Acquirable(mtx[d], t)

\* Some thread can run a call on store d that takes the mutex, does one
\* map access and releases the mutex.
CanCall(d) == {t \in Threads : CanEnter(t, d)} # {}

\* A call that leaves the stores as they are returns one of `results`.
Returns(results) ==
  \E r \in results : IF r.status = "crash" THEN Crash ELSE UNCHANGED vars

\* One more allocation returned offset h of store d.
Issue(d, h) ==
  [issued EXCEPT ![d] =
     Bind(@, h, IF h \in DOMAIN @ THEN @[h] + 1 ELSE 1)]

\* One container behind all three kinds of handle.
StoreOfShared(d) == objectContainer

StoreOf(d) ==
  IF d = "obj" THEN objectContainer
  ELSE IF d = "arr" THEN arrayContainer
  ELSE monitorContainer

\* The first step of an allocating call: the mutex is taken and place()
\* reads lastOffset.  The arguments of the call play no part in it, so
\* they are drawn at the second step.
Enter(t, d, op) ==
  /\ CanEnter(t, d)
  /\ lastOffsetOf(StoreOf(d)) < MaxHandle
  /\ mtx' = [mtx EXCEPT ![d] = lock(@, t)]
  /\ pc' = [pc EXCEPT ![t] = "insert"]
  /\ frame' = [frame EXCEPT
                 ![t] = [op |-> op, lastOffset |-> lastOffsetOf(StoreOf(d))]]
  /\ UNCHANGED << classTable, objectContainer, arrayContainer,
                  monitorContainer, halted, objJc, issued, written,
                  monitorFor, monitorsMade >>

\* The last step of an allocating call: offset h is returned and the
\* mutex released.
Leave(t, d, h) ==
  /\ issued' = Issue(d, h)
  /\ mtx' = [mtx EXCEPT ![d] = unlock(@)]
  /\ pc' = [pc EXCEPT ![t] = "idle"]
  /\ frame' = [frame EXCEPT ![t] = NoFrame]
  /\ UNCHANGED << classTable, halted >>

\* Thread t is between the two steps of the allocating call op.
Inserting(t, op) ==
  /\ ~halted
  /\ pc[t] = "insert"
  /\ frame[t].op = op

\* What a call that updates a record leaves alone.
Quiet == UNCHANGED << classTable, mtx, pc, frame, halted >>

(***************************************************************************)
(* JavaHeap::createObject                                                  *)
(***************************************************************************)
CreateObjectCall(t) == Enter(t, "obj", "createObject")

\* place() inserts the record; its slots are then initialised, the
\* ancestors' first.
CreateObjectInsert(t, jc) ==
  /\ Inserting(t, "createObject")
  /\ LET h == placeOffset(frame[t].lastOffset)
         rec == Defaults(totalFields(jc))
     IN /\ objectContainer' = insert(objectContainer, h, rec)
        /\ objJc' = Bind(objJc, h, jc)
        /\ written' = [written EXCEPT !["obj"] = Bind(@, h, rec)]
        /\ monitorFor' = Unbind(monitorFor, h)
        /\ Leave(t, "obj", h)
  /\ UNCHANGED << arrayContainer, monitorContainer, monitorsMade >>

(***************************************************************************)
(* JavaHeap::putFieldByOffset, getFieldByOffset, getFields, removeObject   *)
(***************************************************************************)
\* objectContainer.find(object.offset)[fieldOffset] is a slot of a record.
ObjSlot(h, fieldOffset) ==
  /\ has(objectContainer, h)
  /\ fieldOffset < Len(find(objectContainer, h))

\* Slot indices a caller passes: those of the record, or of the largest
\* record when the offset is absent.
ObjIndices(h) ==
  IF h \in DOMAIN objectContainer
    THEN 0 .. (Len(objectContainer[h]) - 1)
    ELSE 0 .. 1

\* A write that lands in slot 0 whatever fieldOffset is.
putFieldByOffsetSlotZero(h, fieldOffset, value) ==
  [objectContainer EXCEPT ![h][1] = value]

\* The object store after objectContainer.find(h)[fieldOffset] = value.
putFieldByOffset(h, fieldOffset, value) ==
  [objectContainer EXCEPT ![h][fieldOffset + 1] = value]

getFieldByOffset(h, fieldOffset) ==
  IF ObjSlot(h, fieldOffset)
    THEN {Ok(find(objectContainer, h)[fieldOffset + 1])}
    ELSE Undefined(0)

getFields(h) ==
  IF has(objectContainer, h)
    THEN {Ok(find(objectContainer, h))}
    ELSE Undefined(<< >>)

PutFieldByOffset(h, fieldOffset, value) ==
  /\ CanCall("obj")
  /\ fieldOffset \in ObjIndices(h)
  /\ IF ObjSlot(h, fieldOffset)
       THEN /\ objectContainer' = putFieldByOffset(h, fieldOffset, value)
            /\ written' = [written EXCEPT !["obj"][h][fieldOffset + 1] = value]
            /\ Quiet
            /\ UNCHANGED << arrayContainer, monitorContainer, objJc, issued,
                            monitorFor, monitorsMade >>
       ELSE Returns(Undefined(value))

GetFieldByOffset(h, fieldOffset) ==
  /\ CanCall("obj")
  /\ fieldOffset \in ObjIndices(h)
  /\ Returns(getFieldByOffset(h, fieldOffset))

GetFields(h) ==
  /\ CanCall("obj")
  /\ Returns(getFields(h))

\* A removeObject that takes the monitor record of the same offset along.
RemoveObjectAndMonitor(h) ==
  /\ CanCall("obj")
  /\ objectContainer' = remove(objectContainer, h)
  /\ monitorContainer' = remove(monitorContainer, h)
  /\ issued' = [issued EXCEPT !["obj"] = Unbind(@, h), !["mon"] = Unbind(@, h)]
  /\ written' = [written EXCEPT !["obj"] = Unbind(@, h)]
  /\ objJc' = Unbind(objJc, h)
  /\ monitorFor' = Unbind(monitorFor, h)
  /\ Quiet
  /\ UNCHANGED << arrayContainer, monitorsMade >>

RemoveObject(h) ==
  /\ CanCall("obj")
  /\ objectContainer' = remove(objectContainer, h)
  /\ issued' = [issued EXCEPT !["obj"] = Unbind(@, h)]
  /\ written' = [written EXCEPT !["obj"] = Unbind(@, h)]
  /\ objJc' = Unbind(objJc, h)
  /\ monitorFor' = Unbind(monitorFor, h)
  /\ Quiet
  /\ UNCHANGED << arrayContainer, monitorContainer, monitorsMade >>

(***************************************************************************)
(* JavaHeap::getFieldByName, putFieldByName                                *)
(***************************************************************************)
getFieldByNameImpl(desireLookup, currentLookup, name, descriptor, h, offset) ==
  LET r == resolveField(desireLookup, currentLookup, name, descriptor, offset)
  IN IF r.status = "ok" THEN getFieldByOffset(h, r.val) ELSE {r}

\* getFieldByNameImpl(jc, object->jc, name, descriptor, object, 0)
getFieldByName(jc, name, descriptor, h) ==
  getFieldByNameImpl(jc, objJc[h], name, descriptor, h, 0)

\* A lookup that starts counting slots at 1 instead of 0.
putFieldByNameFromOne(jc, name, descriptor, h) ==
  resolveField(jc, objJc[h], name, descriptor, 1)

\* The slot putFieldByName writes: putFieldByNameImpl(jc, object->jc, name,
\* descriptor, object, value, 0).
putFieldByName(jc, name, descriptor, h) ==
  resolveField(jc, objJc[h], name, descriptor, 0)

GetFieldByName(jc, name, descriptor, h) ==
  /\ CanCall("obj")
  /\ h \in DOMAIN objJc
  /\ Returns(getFieldByName(jc, name, descriptor, h))

PutFieldByName(jc, name, descriptor, h, value) ==
  /\ CanCall("obj")
  /\ h \in DOMAIN objJc
  /\ LET r == putFieldByName(jc, name, descriptor, h)
     IN IF r.status # "ok"
          THEN Returns({r})
          ELSE IF ObjSlot(h, r.val)
            THEN /\ objectContainer' = putFieldByOffset(h, r.val, value)
                 /\ written' = [written EXCEPT !["obj"][h][r.val + 1] = value]
                 /\ Quiet
                 /\ UNCHANGED << arrayContainer, monitorContainer, objJc,
                                 issued, monitorFor, monitorsMade >>
            ELSE Returns(Undefined(value))

(***************************************************************************)
(* JavaHeap::createPODArray                                                *)
(***************************************************************************)
CreatePODArrayCall(t) == Enter(t, "arr", "createPODArray")

\* place() inserts the record, which is then set to (length, length
\* default-initialised elements).
CreatePODArrayInsert(t, length) ==
  /\ Inserting(t, "createPODArray")
  /\ LET h == placeOffset(frame[t].lastOffset)
         rec == [first |-> length, second |-> Defaults(length)]
     IN /\ arrayContainer' = insert(arrayContainer, h, rec)
        /\ written' = [written EXCEPT !["arr"] = Bind(@, h, rec.second)]
        /\ Leave(t, "arr", h)
  /\ UNCHANGED << objectContainer, monitorContainer, objJc, monitorFor,
                  monitorsMade >>

(***************************************************************************)
(* JavaHeap::putElement, getElement, getElements, removeArray              *)
(***************************************************************************)
\* arrayContainer.find(array.offset).second[index] is a slot of a record.
ArrSlot(h, index) ==
  /\ has(arrayContainer, h)
  /\ index < find(arrayContainer, h).first

ArrIndices(h) ==
  IF h \in DOMAIN arrayContainer
    THEN 0 .. (arrayContainer[h].first - 1)
    ELSE 0 .. (MaxLen - 1)

\* A putElement that also records index + 1 as the length of the array.
putElementSetsLength(h, index, value) ==
  [arrayContainer EXCEPT ![h].second[index + 1] = value, ![h].first = index + 1]

\* The array store after arrayContainer.find(h).second[index] = value.
putElement(h, index, value) ==
  [arrayContainer EXCEPT ![h].second[index + 1] = value]

getElement(h, index) ==
  IF ArrSlot(h, index)
    THEN {Ok(find(arrayContainer, h).second[index + 1])}
    ELSE Undefined(0)

getElements(h) ==
  IF has(arrayContainer, h)
    THEN {Ok(find(arrayContainer, h))}
    ELSE Undefined([first |-> 0, second |-> << >>])

PutElement(h, index, value) ==
  /\ CanCall("arr")
  /\ index \in ArrIndices(h)
  /\ IF ArrSlot(h, index)
       THEN /\ arrayContainer' = putElement(h, index, value)
            /\ written' = [written EXCEPT !["arr"][h][index + 1] = value]
            /\ Quiet
            /\ UNCHANGED << objectContainer, monitorContainer, objJc, issued,
                            monitorFor, monitorsMade >>
       ELSE Returns(Undefined(value))

GetElement(h, index) ==
  /\ CanCall("arr")
  /\ index \in ArrIndices(h)
  /\ Returns(getElement(h, index))

GetElements(h) ==
  /\ CanCall("arr")
  /\ Returns(getElements(h))

RemoveArray(h) ==
  /\ CanCall("arr")
  /\ arrayContainer' = remove(arrayContainer, h)
  /\ issued' = [issued EXCEPT !["arr"] = Unbind(@, h)]
  /\ written' = [written EXCEPT !["arr"] = Unbind(@, h)]
  /\ Quiet
  /\ UNCHANGED << objectContainer, monitorContainer, objJc, monitorFor,
                  monitorsMade >>

(***************************************************************************)
(* JavaHeap::createMonitor, hasMonitor, findMonitor                        *)
(***************************************************************************)
\* What a caller passes as const JType* ref: a JObject with its offset, a
\* JArray, or a primitive.
Refs ==
  [kind : {"object"}, offset : Handles]
    \cup [kind : {"array"}, offset : Handles]
    \cup [kind : {"primitive"}, offset : {0}]

ObjectRef(h) == [kind |-> "object", offset |-> h]

\* dynamic_cast<const JObject*>(ref) is non-null.
IsJObject(ref) == ref.kind = "object"

\* Instances a caller may create a monitor for: a live instance none was
\* created for yet.
MonitorOwners == DOMAIN objJc \ DOMAIN monitorFor

CreateMonitorCall(t) == Enter(t, "mon", "createMonitor")

\* MonitorContainer::place, second half: insert(lastOffset + 1, new
\* ObjectMonitor()).  createMonitor() takes no argument; o records the
\* instance the caller is creating the monitor for.
CreateMonitorInsert(t, o) ==
  /\ Inserting(t, "createMonitor")
  /\ o \in MonitorOwners
  /\ LET h == placeOffset(frame[t].lastOffset)
     IN /\ monitorsMade' = monitorsMade + 1
        /\ monitorContainer' = insert(monitorContainer, h, monitorsMade + 1)
        /\ monitorFor' = Bind(monitorFor, o, h)
        /\ Leave(t, "mon", h)
  /\ UNCHANGED << objectContainer, arrayContainer, objJc, written >>

hasMonitor(ref) ==
  IF IsJObject(ref)
    THEN {Ok(has(monitorContainer, ref.offset))}
    ELSE Undefined(FALSE)

findMonitor(ref) ==
  IF IsJObject(ref) /\ has(monitorContainer, ref.offset)
    THEN {Ok(find(monitorContainer, ref.offset))}
    ELSE Undefined(0)

HasMonitor(ref) ==
  /\ CanCall("mon")
  /\ Returns(hasMonitor(ref))

FindMonitor(ref) ==
  /\ CanCall("mon")
  /\ Returns(findMonitor(ref))

(***************************************************************************)
(* The heap under concurrent callers, with the classes A and B loaded.     *)
(***************************************************************************)
Next ==
  \/ \E t \in Threads : CreateObjectCall(t)
  \/ \E t \in Threads, jc \in Classes : CreateObjectInsert(t, jc)
  \/ \E h \in Handles, i \in 0..1, v \in Values : PutFieldByOffset(h, i, v)
  \/ \E h \in Handles, i \in 0..1 : GetFieldByOffset(h, i)
  \/ \E h \in Handles : GetFields(h)
  \/ \E h \in Handles : RemoveObject(h)
  \/ \E jc \in Classes, n \in FieldNames, d \in Descriptors, h \in Handles :
       GetFieldByName(jc, n, d, h)
  \/ \E jc \in Classes, n \in FieldNames, d \in Descriptors, h \in Handles,
        v \in Values : PutFieldByName(jc, n, d, h, v)
  \/ \E t \in Threads : CreatePODArrayCall(t)
  \/ \E t \in Threads, n \in ArrLens : CreatePODArrayInsert(t, n)
  \/ \E h \in Handles, i \in 0..(MaxLen - 1), v \in Values : PutElement(h, i, v)
  \/ \E h \in Handles, i \in 0..(MaxLen - 1) : GetElement(h, i)
  \/ \E h \in Handles : GetElements(h)
  \/ \E h \in Handles : RemoveArray(h)
  \/ \E t \in Threads : CreateMonitorCall(t)
  \/ \E t \in Threads, o \in Handles : CreateMonitorInsert(t, o)
  \/ \E ref \in Refs : HasMonitor(ref)
  \/ \E ref \in Refs : FindMonitor(ref)

Spec == Init /\ [][Next]_vars

(***************************************************************************)
(* The object store alone, over every ancestor chain of at most MaxDepth   *)
(* classes declaring at most MaxFields fields each.                        *)
(***************************************************************************)
InitLayout ==
  /\ classTable \in ClassTables
  /\ InitHeap

NextLayout ==
  \/ \E t \in Threads : CreateObjectCall(t)
  \/ \E t \in Threads, jc \in Classes : CreateObjectInsert(t, jc)
  \/ \E jc \in Classes, n \in FieldNames, d \in Descriptors, h \in Handles :
       GetFieldByName(jc, n, d, h)
  \/ \E jc \in Classes, n \in FieldNames, d \in Descriptors, h \in Handles,
        v \in Values : PutFieldByName(jc, n, d, h, v)

SpecLayout == InitLayout /\ [][NextLayout]_vars

(***************************************************************************)
(* The locking of the facade calls, step by step.  A call is entered       *)
(* (pc "acquire"), its lock_guard takes the mutex of its store (pc         *)
(* "locked"), and its body runs and the lock_guard is destroyed in one     *)
(* step.  Which call of that store the thread is in shows only when the    *)
(* body runs, so frame[t].op holds the store whose mutex the call names.   *)
(* The heap starts as one createObject(A) and one createPODArray(1) leave  *)
(* it.                                                                     *)
(***************************************************************************)
\* Every call locking objMtx, whatever store it works on.
mutexOfObjMtx(op) == "obj"

\* The mutex the lock_guard of each facade call names.
mutexOf(op) ==
  CASE op \in {"putFieldByOffset", "getFieldByOffset", "getFields",
               "removeObject", "getFieldByName"} -> "obj"
    [] op \in {"putElement", "getElement", "getElements", "removeArray"} -> "arr"
    [] op \in {"hasMonitor", "createMonitor", "findMonitor"} -> "mon"

InitLocks ==
  /\ classTable = ClassesAB
  /\ objectContainer = (1 :> Defaults(1))
  /\ arrayContainer = (1 :> [first |-> 1, second |-> Defaults(1)])
  /\ monitorContainer = EmptyMap
  /\ mtx = [d \in Stores |-> FreeMutex]
  /\ pc = [t \in Threads |-> "idle"]
  /\ frame = [t \in Threads |-> NoFrame]
  /\ halted = FALSE
  /\ objJc = (1 :> 1)
  /\ issued = [d \in Stores |->
                 CASE d = "obj" -> (1 :> 1)
                   [] d = "arr" -> (1 :> 1)
                   [] d = "mon" -> EmptyMap]
  /\ written = [d \in Stores |->
                  CASE d = "obj" -> (1 :> Defaults(1))
                    [] d = "arr" -> (1 :> Defaults(1))
                    [] d = "mon" -> EmptyMap]
  /\ monitorFor = EmptyMap
  /\ monitorsMade = 0

\* Thread t enters a facade call whose lock_guard names the mutex of
\* store d.
Call(t, d) ==
  /\ ~halted
  /\ pc[t] = "idle"
  /\ pc' = [pc EXCEPT ![t] = "acquire"]
  /\ frame' = [frame EXCEPT ![t] = [op |-> d, lastOffset |-> 0]]
  /\ UNCHANGED << classTable, objectContainer, arrayContainer,
                  monitorContainer, mtx, halted, objJc, issued, written,
                  monitorFor, monitorsMade >>

\* lock_guard's constructor returns: recursive_mutex::lock has the mutex.
Acquire(t) ==
  /\ ~halted
  /\ pc[t] = "acquire"
  /\ Acquirable(mtx[frame[t].op], t)
  /\ mtx' = [mtx EXCEPT ![frame[t].op] = lock(@, t)]
  /\ pc' = [pc EXCEPT ![t] = "locked"]
  /\ UNCHANGED << classTable, objectContainer, arrayContainer,
                  monitorContainer, frame, halted, objJc, issued, written,
                  monitorFor, monitorsMade >>

\* Thread t is past the lock_guard of the call op.
Running(t, op) ==
  /\ ~halted
  /\ pc[t] = "locked"
  /\ frame[t].op = mutexOf(op)

\* The call returns: its lock_guard is destroyed.
Release(t) ==
  /\ mtx' = [mtx EXCEPT ![frame[t].op] = unlock(@)]
  /\ pc' = [pc EXCEPT ![t] = "idle"]
  /\ frame' = [frame EXCEPT ![t] = NoFrame]
  /\ UNCHANGED << classTable, halted >>

\* A call that leaves the stores as they are returns one of `results`.
Finish(t, results) ==
  \E r \in results :
    IF r.status = "crash"
      THEN Crash
      ELSE /\ Release(t)
           /\ UNCHANGED << objectContainer, arrayContainer, monitorContainer,
                           objJc, issued, written, monitorFor, monitorsMade >>

PutFieldByOffsetBody(t, h, fieldOffset, value) ==
  /\ Running(t, "putFieldByOffset")
  /\ fieldOffset \in ObjIndices(h)
  /\ IF ObjSlot(h, fieldOffset)
       THEN /\ objectContainer' = putFieldByOffset(h, fieldOffset, value)
            /\ written' = [written EXCEPT !["obj"][h][fieldOffset + 1] = value]
            /\ Release(t)
            /\ UNCHANGED << arrayContainer, monitorContainer, objJc, issued,
                            monitorFor, monitorsMade >>
       ELSE Finish(t, Undefined(value))

GetFieldByOffsetBody(t, h, fieldOffset) ==
  /\ Running(t, "getFieldByOffset")
  /\ fieldOffset \in ObjIndices(h)
  /\ Finish(t, getFieldByOffset(h, fieldOffset))

GetFieldsBody(t, h) ==
  /\ Running(t, "getFields")
  /\ Finish(t, getFields(h))

RemoveObjectBody(t, h) ==
  /\ Running(t, "removeObject")
  /\ objectContainer' = remove(objectContainer, h)
  /\ issued' = [issued EXCEPT !["obj"] = Unbind(@, h)]
  /\ written' = [written EXCEPT !["obj"] = Unbind(@, h)]
  /\ objJc' = Unbind(objJc, h)
  /\ monitorFor' = Unbind(monitorFor, h)
  /\ Release(t)
  /\ UNCHANGED << arrayContainer, monitorContainer, monitorsMade >>

PutElementBody(t, h, index, value) ==
  /\ Running(t, "putElement")
  /\ index \in ArrIndices(h)
  /\ IF ArrSlot(h, index)
       THEN /\ arrayContainer' = putElement(h, index, value)
            /\ written' = [written EXCEPT !["arr"][h][index + 1] = value]
            /\ Release(t)
            /\ UNCHANGED << objectContainer, monitorContainer, objJc, issued,
                            monitorFor, monitorsMade >>
       ELSE Finish(t, Undefined(value))

GetElementBody(t, h, index) ==
  /\ Running(t, "getElement")
  /\ index \in ArrIndices(h)
  /\ Finish(t, getElement(h, index))

GetElementsBody(t, h) ==
  /\ Running(t, "getElements")
  /\ Finish(t, getElements(h))

RemoveArrayBody(t, h) ==
  /\ Running(t, "removeArray")
  /\ arrayContainer' = remove(arrayContainer, h)
  /\ issued' = [issued EXCEPT !["arr"] = Unbind(@, h)]
  /\ written' = [written EXCEPT !["arr"] = Unbind(@, h)]
  /\ Release(t)
  /\ UNCHANGED << objectContainer, monitorContainer, objJc, monitorFor,
                  monitorsMade >>

\* monitorContainer.place() under the lock_guard of createMonitor; o is
\* the instance the caller creates the monitor for.
CreateMonitorBody(t, o) ==
  /\ Running(t, "createMonitor")
  /\ o \in MonitorOwners
  /\ lastOffsetOf(monitorContainer) < MaxHandle
  /\ LET h == placeOffset(lastOffsetOf(monitorContainer))
     IN /\ monitorsMade' = monitorsMade + 1
        /\ monitorContainer' = insert(monitorContainer, h, monitorsMade + 1)
        /\ monitorFor' = Bind(monitorFor, o, h)
        /\ issued' = Issue("mon", h)
  /\ Release(t)
  /\ UNCHANGED << objectContainer, arrayContainer, objJc, written >>

HasMonitorBody(t, ref) ==
  /\ Running(t, "hasMonitor")
  /\ Finish(t, hasMonitor(ref))

FindMonitorBody(t, ref) ==
  /\ Running(t, "findMonitor")
  /\ Finish(t, findMonitor(ref))

\* getFieldByName whose resolution fails returns the failure.
GetFieldByNameFails(t, jc, name, descriptor, h) ==
  /\ Running(t, "getFieldByName")
  /\ h \in DOMAIN objJc
  /\ resolveField(jc, objJc[h], name, descriptor, 0).status # "ok"
  /\ Finish(t, {resolveField(jc, objJc[h], name, descriptor, 0)})

\* getFieldByNameImpl, which holds objMtx, has resolved the field of some
\* instance and calls back into field access, whose lock_guard takes
\* objMtx again.
GetFieldByNameReenter(t) ==
  /\ Running(t, "getFieldByName")
  /\ \E h \in DOMAIN objJc, jc \in Classes, name \in FieldNames,
        descriptor \in Descriptors :
       resolveField(jc, objJc[h], name, descriptor, 0).status = "ok"
  /\ Acquirable(mtx[frame[t].op], t)
  /\ mtx' = [mtx EXCEPT ![frame[t].op] = lock(@, t)]
  /\ pc' = [pc EXCEPT ![t] = "nested"]
  /\ UNCHANGED << classTable, objectContainer, arrayContainer,
                  monitorContainer, frame, halted, objJc, issued, written,
                  monitorFor, monitorsMade >>

\* The field access called back reads the slot and returns: the inner
\* lock_guard is destroyed, the outer one still holds objMtx.
GetFieldByNameInner(t, jc, name, descriptor, h) ==
  /\ ~halted
  /\ pc[t] = "nested"
  /\ h \in DOMAIN objJc
  /\ resolveField(jc, objJc[h], name, descriptor, 0).status = "ok"
  /\ \E r \in getFieldByName(jc, name, descriptor, h) :
       IF r.status = "crash"
         THEN Crash
         ELSE /\ mtx' = [mtx EXCEPT ![frame[t].op] = unlock(@)]
              /\ pc' = [pc EXCEPT ![t] = "unwind"]
              /\ UNCHANGED << classTable, objectContainer, arrayContainer,
                              monitorContainer, frame, halted, objJc, issued,
                              written, monitorFor, monitorsMade >>

\* getFieldByNameImpl returns what the field access returned.
GetFieldByNameReturn(t) ==
  /\ ~halted
  /\ pc[t] = "unwind"
  /\ Release(t)
  /\ UNCHANGED << objectContainer, arrayContainer, monitorContainer, objJc,
                  issued, written, monitorFor, monitorsMade >>

\* The steps thread t takes once it has entered a call.
ThreadStep(t) ==
  \/ Acquire(t)
  \/ \E h \in Handles, i \in 0..1, v \in Values : PutFieldByOffsetBody(t, h, i, v)
  \/ \E h \in Handles, i \in 0..1 : GetFieldByOffsetBody(t, h, i)
  \/ \E h \in Handles : GetFieldsBody(t, h)
  \/ \E h \in Handles : RemoveObjectBody(t, h)
  \/ \E h \in Handles, i \in 0..(MaxLen - 1), v \in Values :
       PutElementBody(t, h, i, v)
  \/ \E h \in Handles, i \in 0..(MaxLen - 1) : GetElementBody(t, h, i)
  \/ \E h \in Handles : GetElementsBody(t, h)
  \/ \E h \in Handles : RemoveArrayBody(t, h)
  \/ \E o \in Handles : CreateMonitorBody(t, o)
  \/ \E ref \in Refs : HasMonitorBody(t, ref)
  \/ \E ref \in Refs : FindMonitorBody(t, ref)
  \/ \E jc \in Classes, n \in FieldNames, d \in Descriptors, h \in Handles :
       GetFieldByNameFails(t, jc, n, d, h)
  \/ GetFieldByNameReenter(t)
  \/ \E jc \in Classes, n \in FieldNames, d \in Descriptors, h \in Handles :
       GetFieldByNameInner(t, jc, n, d, h)
  \/ GetFieldByNameReturn(t)

NextLocks ==
  \/ \E t \in Threads, d \in Stores : Call(t, d)
  \/ \E t \in Threads : ThreadStep(t)

SpecLocks == InitLocks /\ [][NextLocks]_vars

\* The scheduler is weakly fair to every thread: a thread that can go on
\* does.  Nothing makes a mutex fair to the threads waiting for it.
SpecLocksFair == SpecLocks /\ \A t \in Threads : WF_vars(ThreadStep(t))

(***************************************************************************)
(* Properties.                                                             *)
(***************************************************************************)
\* The number of allocations that returned offset h of store d and were
\* not removed since.
IssuedCount(d, h) == IF h \in DOMAIN issued[d] THEN issued[d][h] ELSE 0

\* Offset h of store d is absent because it was removed: place() hands
\* out lastOffset + 1, so an offset below a live one was live once.
Removed(d, h) ==
  /\ h \notin DOMAIN StoreOf(d)
  /\ \E k \in DOMAIN StoreOf(d) : k > h

\* n0 + ... + n(c-1): the declared-field counts of the ancestors of class c.
RECURSIVE CountsBefore(_)
CountsBefore(c) ==
  IF c <= 1 THEN 0 ELSE CountsBefore(c - 1) + Len(classTable[c - 1])

\* C1 (state part): in every store no offset stands for two live records.
C1_NoSharedHandle ==
  \A d \in Stores : \A h \in DOMAIN issued[d] : IssuedCount(d, h) <= 1

\* C1 (step part): an offset an allocation returns was not live in its
\* store immediately before the allocation.
C1_FreshHandle ==
  \A d \in Stores : \A h \in DOMAIN issued'[d] :
    IssuedCount(d, h)' > IssuedCount(d, h) => h \notin DOMAIN StoreOf(d)

\* C1: for every store and every sequence of allocations and removals, no
\* two live records share a handle, and the handle an allocation returns
\* was not live in that store immediately before the allocation.
C1_HandleUniqueness == [] C1_NoSharedHandle /\ [][C1_FreshHandle]_vars

\* C1 witness: all three stores hold records, after a removal in the array
\* store and a second allocation in the other two.
C1_Witness ==
  /\ DOMAIN objectContainer = {1, 2}
  /\ DOMAIN arrayContainer = {2}
  /\ DOMAIN monitorContainer = {1, 2}

\* C2 (as claimed): after remove(h), and until h is allocated again, has(h)
\* is false and every lookup of h ends with the typed error NotFound.
C2_LookupFailsNotFound ==
  /\ \A h \in Handles :
       Removed("obj", h) =>
         /\ ~has(objectContainer, h)
         /\ \A i \in 0..1 : \A r \in getFieldByOffset(h, i) : r.status = "NotFound"
         /\ \A r \in getFields(h) : r.status = "NotFound"
  /\ \A h \in Handles :
       Removed("arr", h) =>
         /\ ~has(arrayContainer, h)
         /\ \A i \in 0..(MaxLen - 1) :
              \A r \in getElement(h, i) : r.status = "NotFound"
         /\ \A r \in getElements(h) : r.status = "NotFound"

\* C3 (as claimed): for every live instance o, hasMonitor(o) is true
\* exactly when createMonitor() has been called to create o's monitor.
C3_HasMonitorIffCreated ==
  \A o \in DOMAIN objJc :
    hasMonitor(ObjectRef(o)) = {Ok(o \in DOMAIN monitorFor)}

\* C4 (as claimed): for every instance o whose monitor createMonitor()
\* created, findMonitor(o) returns that monitor.
C4_FindMonitorReturnsCreated ==
  \A o \in DOMAIN monitorFor :
    findMonitor(ObjectRef(o)) = {Ok(find(monitorContainer, monitorFor[o]))}

\* C5 (as claimed): findMonitor(o) on an instance o whose handle has no
\* record in the monitor store ends with the typed error NoMonitor.
C5_FindMonitorFailsNoMonitor ==
  \A o \in DOMAIN objJc :
    ~has(monitorContainer, o) =>
      \A r \in findMonitor(ObjectRef(o)) : r.status = "NoMonitor"

\* C6 (as claimed): hasMonitor(ref) and findMonitor(ref) on a value that is
\* not an object reference end with the typed error InvalidReferenceKind.
C6_NonObjectFailsInvalidReferenceKind ==
  \A ref \in Refs :
    (~IsJObject(ref) /\ (ref.kind = "array" => has(arrayContainer, ref.offset))) =>
      /\ \A r \in hasMonitor(ref) : r.status = "InvalidReferenceKind"
      /\ \A r \in findMonitor(ref) : r.status = "InvalidReferenceKind"

\* C7: for every live handle h and in-bounds slot i, getFieldByOffset(h, i)
\* (getElement(h, i)) returns the value the last putFieldByOffset(h, i, v)
\* (putElement(h, i, v)) since the creation of h wrote, whatever was
\* written to other slots and handles meanwhile, and the default value if
\* the slot was never written.
C7_RoundTrip ==
  /\ \A h \in DOMAIN written["obj"] : \A i \in 1..Len(written["obj"][h]) :
       getFieldByOffset(h, i - 1) = {Ok(written["obj"][h][i])}
  /\ \A h \in DOMAIN written["arr"] : \A i \in 1..Len(written["arr"][h]) :
       getElement(h, i - 1) = {Ok(written["arr"][h][i])}

\* C7 witness: an array of length 2 whose index 1 was written and whose
\* index 0 was not, and an instance whose slot 1 was written.
C7_Witness ==
  /\ \E h \in DOMAIN arrayContainer : written["arr"][h] = << 0, 1 >>
  /\ \E h \in DOMAIN objectContainer : written["obj"][h] = << 0, 1 >>

\* C8: under every interleaving of the threads' facade calls no allocation
\* is lost: every handle an allocation returned and no removal took is in
\* its store, no two allocation calls hold the same handle, and every slot
\* holds a value some write stored whole (or its initial value).
C8_NoLostAllocation ==
  /\ \A d \in Stores :
       /\ DOMAIN issued[d] \subseteq DOMAIN StoreOf(d)
       /\ \A h \in DOMAIN issued[d] : issued[d][h] = 1
  /\ \A h \in DOMAIN objectContainer :
       /\ h \in DOMAIN written["obj"]
       /\ objectContainer[h] = written["obj"][h]
       /\ \A i \in 1..Len(objectContainer[h]) : objectContainer[h][i] \in Values
  /\ \A h \in DOMAIN arrayContainer :
       /\ h \in DOMAIN written["arr"]
       /\ arrayContainer[h].second = written["arr"][h]
       /\ \A i \in 1..arrayContainer[h].first :
            arrayContainer[h].second[i] \in Values

\* C8 witness: both threads are inside allocating calls while records
\* that earlier calls allocated and wrote are live.
C8_Witness ==
  /\ \A t \in Threads : pc[t] = "insert"
  /\ \E t \in Threads : frame[t].op = "createObject" /\ frame[t].lastOffset = 1
  /\ \E h \in DOMAIN objectContainer : \E i \in 1..Len(objectContainer[h]) :
       objectContainer[h][i] = 1

\* C9: an instance of class C has n0 + ... + nk slots, and a field the
\* i-th ancestor declares resolves, by getFieldByName and putFieldByName
\* with that ancestor as declaring class, to a slot in
\* [n0 + ... + n(i-1), n0 + ... + n(i-1) + ni - 1], also when the declaring
\* class is not the instance's class.
C9_LayoutInvariant ==
  \A h \in DOMAIN objectContainer :
    /\ h \in DOMAIN objJc
    /\ Len(objectContainer[h]) = CountsBefore(objJc[h] + 1)
    /\ \A c \in 1..objJc[h] : \A j \in 1..Len(classTable[c]) :
         LET f == classTable[c][j]
             r == putFieldByName(c, f.name, f.descriptor, h)
         IN /\ r.status = "ok"
            /\ r.val >= CountsBefore(c)
            /\ r.val <= CountsBefore(c) + Len(classTable[c]) - 1
            /\ getFieldByName(c, f.name, f.descriptor, h)
                 = {Ok(objectContainer[h][r.val + 1])}

\* C9 witness: B extends A, each declaring one field; an instance of B
\* whose slot 1 was written through B's field and whose slot 0 was not.
C9_Witness ==
  /\ Len(classTable) = 2
  /\ Len(classTable[1]) = 1
  /\ Len(classTable[2]) = 1
  /\ \E h \in DOMAIN objectContainer :
       objJc[h] = 2 /\ objectContainer[h] = << 0, 1 >>

\* C10: remove on a handle that is absent from its store leaves the
\* store's handles and records as they are, and so does a second removal
\* of a handle.
C10_RemoveAbsentIsNoOp ==
  \A d \in {"obj", "arr"} : \A h \in Handles :
    /\ h \notin DOMAIN StoreOf(d) => remove(StoreOf(d), h) = StoreOf(d)
    /\ remove(remove(StoreOf(d), h), h) = remove(StoreOf(d), h)

\* C10 witness: offset 1 was removed from the object store and from the
\* array store while offset 2 is live in each.
C10_Witness ==
  /\ Removed("obj", 1)
  /\ Removed("arr", 1)

\* C11 (state part): every live handle of every store is a positive integer.
C11_PositiveHandles ==
  \A d \in Stores : \A h \in DOMAIN StoreOf(d) : h \in Nat /\ h >= 1

\* C11 (step part): the handle an allocation returns is greater than every
\* live handle of its store and is 1 or the successor of a live handle.
C11_MaxPlusOne ==
  \A d \in Stores : \A h \in DOMAIN issued'[d] :
    IssuedCount(d, h)' > IssuedCount(d, h) =>
      /\ \A k \in DOMAIN StoreOf(d) : k < h
      /\ h = 1 \/ (h - 1) \in DOMAIN StoreOf(d)

\* C11: every allocation on a store returns the greatest live handle of
\* that store plus one, the greatest handle of an empty store being 0: the
\* first handle of an empty store is 1 and every handle is positive.
C11_HandlePolicy == [] C11_PositiveHandles /\ [][C11_MaxPlusOne]_vars

\* C11 witness: the object store holds its first handle, the array store
\* the two handles of two allocations, and the monitor store none yet.
C11_Witness ==
  /\ DOMAIN objectContainer = {1}
  /\ DOMAIN arrayContainer = {1, 2}
  /\ DOMAIN monitorContainer = {}

\* The stores the facade can remove records from.
RemovableStores == {"obj", "arr"}

\* The handle place() returns when it runs right after remove(h) on the
\* store data.
NextAfterRemove(data, h) == placeOffset(lastOffsetOf(remove(data, h)))

\* Handle h is the greatest live handle of store d.
IsMaximum(d, h) ==
  /\ h \in DOMAIN StoreOf(d)
  /\ \A k \in DOMAIN StoreOf(d) : k <= h

C14_ReuseAtMostMaximum ==
  \A d \in RemovableStores : \A h \in Handles :
    IsMaximum(d, h) =>
      /\ NextAfterRemove(StoreOf(d), h) <= h
      /\ NextAfterRemove(StoreOf(d), h) = h
           <=> (h = 1 \/ (h - 1) \in DOMAIN StoreOf(d))

\* C14 (amended, step part): no allocation returns a handle below a live
\* handle of its store.
C14_NoReuseBelowLive ==
  \A d \in Stores : \A h \in DOMAIN issued'[d] :
    IssuedCount(d, h)' > IssuedCount(d, h) =>
      ~ \E k \in DOMAIN StoreOf(d) : k > h

Slots(d, h) ==
  IF d = "obj" THEN objectContainer[h] ELSE arrayContainer[h].second

\* The handles of store d that are live before and after a step.
Kept(d) == DOMAIN StoreOf(d) \cap DOMAIN StoreOf(d)'

\* The slots of the records kept by a step whose value the step changed.
SlotsChanged ==
  { x \in RemovableStores \X Handles \X (1..MaxLen) :
      /\ x[2] \in Kept(x[1])
      /\ x[3] <= Len(Slots(x[1], x[2]))
      /\ x[3] <= Len(Slots(x[1], x[2])')
      /\ Slots(x[1], x[2])[x[3]] # Slots(x[1], x[2])'[x[3]] }

\* C15 (step part): a step that changes the object or the array store
\* keeps the slot count of every record it does not create or remove, and
\* if it overwrites a slot it changes that slot alone and no store's set
\* of handles.
C15_InPlace ==
  \/ UNCHANGED << objectContainer, arrayContainer >>
  \/ LET changed == SlotsChanged
     IN /\ \A h \in Kept("obj") :
             Len(objectContainer'[h]) = Len(objectContainer[h])
        /\ \A h \in Kept("arr") :
             /\ arrayContainer'[h].first = arrayContainer[h].first
             /\ Len(arrayContainer'[h].second) = Len(arrayContainer[h].second)
        /\ changed # {} =>
             /\ Cardinality(changed) = 1
             /\ \A d \in Stores : DOMAIN StoreOf(d)' = DOMAIN StoreOf(d)
             /\ monitorContainer' = monitorContainer

\* C15: between the creation and the removal of a record no facade call
\* changes its handle or its slot count; putFieldByOffset and putElement
\* with an index in bounds overwrite the addressed slot only, leave every
\* other slot and record as it is, and add or remove no handle of any
\* store.
C15_ShapeImmutable == [][C15_InPlace]_vars

\* C15 witness: slot 0 of an array of length 2 was overwritten next to an
\* untouched instance of B, an overwritten instance of A and a monitor.
C15_Witness ==
  /\ \E h \in DOMAIN arrayContainer : arrayContainer[h].second = << 1, 0 >>
  /\ \E h \in DOMAIN objectContainer : objectContainer[h] = << 0, 0 >>
  /\ \E h \in DOMAIN objectContainer : objectContainer[h] = << 1 >>
  /\ monitorContainer # EmptyMap

\* The live handles of each store, read off the store itself.
Live(d) ==
  CASE d = "obj" -> DOMAIN objectContainer
    [] d = "arr" -> DOMAIN arrayContainer
    [] d = "mon" -> DOMAIN monitorContainer

\* The step changed the handles or the records of store d.
Touched(d) ==
  CASE d = "obj" -> objectContainer' # objectContainer
    [] d = "arr" -> arrayContainer' # arrayContainer
    [] d = "mon" -> monitorContainer' # monitorContainer

\* C16 (step part): a step of the running heap changes at most one store,
\* and the handle an allocation returns is the successor of the greatest
\* live handle of its own store (1 for an empty store), whatever the other
\* stores hold.
C16_OneStore ==
  /\ ~halted' =>
       \A d \in Stores : Touched(d) => \A e \in Stores \ {d} : ~Touched(e)
  /\ \A d \in Stores : \A h \in DOMAIN issued'[d] :
       IssuedCount(d, h)' > IssuedCount(d, h) =>
         /\ h \notin Live(d)
         /\ Live(d)' = Live(d) \cup {h}
         /\ \A k \in Live(d) : k < h
         /\ h = 1 \/ (h - 1) \in Live(d)

\* C16: the handle spaces of the three stores are independent: an
\* allocation or a removal in one store leaves the handles and the records
\* of the other two as they are, and the handle an allocation returns
\* depends on the live handles of its own store only.
C16_IndependentStores == [][C16_OneStore]_vars

\* C16 witness: the three stores hold three different sets of handles.
C16_Witness ==
  /\ DOMAIN objectContainer = {2}
  /\ DOMAIN arrayContainer = {1}
  /\ DOMAIN monitorContainer = {1, 2}

\* C19 (step part): while the process runs, a step keeps every monitor
\* record with its monitor, and a step that changes the object store
\* (removeObject, createObject, a field write) leaves the monitor store
\* and what hasMonitor returns for every instance handle as they were.
C19_MonitorsKept ==
  ~halted' =>
    /\ \A m \in DOMAIN monitorContainer :
         /\ m \in DOMAIN monitorContainer'
         /\ monitorContainer'[m] = monitorContainer[m]
    /\ Touched("obj") =>
         /\ monitorContainer' = monitorContainer
         /\ \A h \in Handles :
              hasMonitor(ObjectRef(h))' = hasMonitor(ObjectRef(h))

\* C19: removeObject(h) leaves the monitor store as it is and no facade
\* call removes a monitor record: a live monitor handle stays live with
\* the same monitor, so after removeObject(h) and an allocation that
\* returns h again hasMonitor answers for the new instance what it
\* answered for the old one.
C19_MonitorsOutliveInstances == [][C19_MonitorsKept]_vars

\* C19 witness: both monitors were created for instances removed since;
\* the two live instances, one of them on a reassigned handle, had no
\* monitor created and hasMonitor is true of both.
C19_Witness ==
  /\ DOMAIN objectContainer = {1, 2}
  /\ DOMAIN monitorContainer = {1, 2}
  /\ monitorFor = EmptyMap
  /\ \A h \in {1, 2} : hasMonitor(ObjectRef(h)) = {Ok(TRUE)}

\* Thread t is inside a critical section: past a lock_guard's constructor
\* and before its destructor.
InCall(t) == pc[t] \in {"locked", "nested", "unwind"}

\* The lock_guards alive on the stack of thread t.
Depth(t) ==
  CASE pc[t] = "nested" -> 2
    [] pc[t] \in {"locked", "unwind"} -> 1
    [] OTHER -> 0

\* C12 (state part): a thread owns no mutex but the one its call names,
\* and a thread waiting for a free mutex takes it whatever the other two
\* mutexes are doing.
C12_OwnLockOnly ==
  /\ \A t \in Threads : \A d \in Stores :
       mtx[d].owner = t => InCall(t) /\ frame[t].op = d
  /\ \A t \in Threads :
       (~halted /\ pc[t] = "acquire" /\ mtx[frame[t].op].owner = NoThread)
         => ENABLED Acquire(t)

\* C12 (step part): the thread whose call changes a store owns the mutex
\* of that store and no other.
C12_TouchUnderOwnLock ==
  ~halted' =>
    \A d \in Stores : \A t \in Threads :
      (Touched(d) /\ pc'[t] # pc[t]) =>
        /\ mtx[d].owner = t
        /\ \A e \in Stores \ {d} : mtx[e].owner # t

\* C12: every facade call that works on one store takes the mutex of that
\* store and no other, so calls on different stores never wait for each
\* other: an object call, an array call and a monitor call can be inside
\* their critical sections together.
C12_LockPerStore == [] C12_OwnLockOnly /\ [][C12_TouchUnderOwnLock]_vars

\* C12 witness: three threads are inside the critical sections of the
\* object store, the array store and the monitor store at once.
C12_Witness ==
  \A d \in Stores : \E t \in Threads :
    pc[t] = "locked" /\ frame[t].op = d /\ mtx[d].owner = t

\* C13: the mutexes are reentrant: the thread that holds a mutex takes it
\* again without waiting, the mutex counts the lock_guards of its owner
\* and is free for the other threads only when the owner has released it
\* as often as it took it.
C13_Reentrant ==
  \A d \in Stores :
    /\ (mtx[d].owner = NoThread) <=> (mtx[d].count = 0)
    /\ \A t \in Threads :
         /\ (InCall(t) /\ frame[t].op = d) =>
              mtx[d].owner = t /\ mtx[d].count = Depth(t)
         /\ (~halted /\ pc[t] = "acquire" /\ frame[t].op = d
               /\ mtx[d].owner \notin {NoThread, t}) => ~ ENABLED Acquire(t)
         /\ (~halted /\ pc[t] = "locked" /\ frame[t].op = "obj"
               /\ d = "obj" /\ objJc # EmptyMap) =>
              ENABLED GetFieldByNameReenter(t)

\* C13 witness: a thread holds objMtx twice, inside the field access its
\* by-name call called back, while another thread waits for objMtx.
C13_Witness ==
  \E t, u \in Threads :
    /\ pc[t] = "nested"
    /\ mtx["obj"] = [owner |-> t, count |-> 2]
    /\ pc[u] = "acquire"
    /\ frame[u].op = "obj"

\* C17 (state part): at most one thread is inside a critical section of
\* a store.
C17_OneInside ==
  \A d \in Stores :
    Cardinality({t \in Threads : InCall(t) /\ frame[t].op = d}) <= 1

\* C17 (step part): a step that changes a store is a step of the one
\* thread inside that store's critical section.
C17_Serial ==
  ~halted' =>
    \A d \in Stores :
      Touched(d) =>
        \E t \in Threads :
          /\ InCall(t) /\ frame[t].op = d /\ pc'[t] # pc[t]
          /\ \A u \in Threads \ {t} : pc'[u] = pc[u]

\* C17: in every reachable state at most one thread is inside a critical
\* section of a given store; facade calls of different threads on the
\* same store, whatever their handles, never overlap and take effect one
\* after the other.
C17_MutualExclusion == [] C17_OneInside /\ [][C17_Serial]_vars

\* C17 witness: after a field write took effect, one thread is inside a
\* call on the object store and another one waits for objMtx.
C17_Witness ==
  /\ 1 \in DOMAIN objectContainer
  /\ objectContainer[1] = << 1 >>
  /\ \E t, u \in Threads :
       /\ pc[t] = "locked" /\ frame[t].op = "obj"
       /\ pc[u] = "acquire" /\ frame[u].op = "obj"

\* C18 (as claimed): under weak fairness of the scheduler every facade
\* call a thread has entered completes.
C18_EveryCallCompletes ==
  \A t \in Threads : (pc[t] # "idle") ~> (pc[t] = "idle")

\* C18 (amended, state part): a thread outside a critical section owns no
\* mutex and a thread inside one owns exactly one.
C18_OneLockPerCall ==
  \A t \in Threads :
    Cardinality({d \in Stores : mtx[d].owner = t}) = IF InCall(t) THEN 1 ELSE 0

\* C18 (amended, state part): no deadlock: a thread inside a call can
\* take its next step, or waits for a mutex whose owner can.
C18_NoDeadlock ==
  \A t \in Threads :
    (~halted /\ pc[t] # "idle") =>
      \/ ENABLED ThreadStep(t)
      \/ \E u \in Threads :
           /\ mtx[frame[t].op].owner = u
           /\ ENABLED ThreadStep(u)

\* C18 (amended): under weak fairness of the scheduler every facade call
\* that has taken its mutex ends (it returns, or undefined behaviour ends
\* the process), a thread outside a call owns no mutex and a thread inside
\* one owns one, and no reachable state is a deadlock.
C18_HeldCallsComplete ==
  /\ \A t \in Threads : InCall(t) ~> (pc[t] = "idle")
  /\ [] C18_OneLockPerCall
  /\ [] C18_NoDeadlock

\* C18 witness: one thread is inside a call and every other thread waits
\* for the mutex it holds.
C18_Witness ==
  \E t \in Threads :
    /\ pc[t] = "locked"
    /\ \A u \in Threads \ {t} :
         pc[u] = "acquire" /\ frame[u].op = frame[t].op

=============================================================================
